---------------------------- MODULE Spec2Model ----------------------------
(***************************************************************************)
(* midi-rnn (src/midi-rnn.ipynb): the event codec (load_midi_file,         *)
(* create_midi_track) and the streaming corpus scheduler (the training     *)
(* loop with its pool of resident MIDI files).                             *)
(*                                                                         *)
(* Python lists are TLA+ sequences; a Python index i is position i+1.      *)
(* current_file and file_choice keep their Python (0-based) values.        *)
(***************************************************************************)
EXTENDS Integers, Sequences, FiniteSets, TLC

(***************************************************************************)
(* Bounds of the model.                                                    *)
(***************************************************************************)
NumFiles == 2            \* len(file_list)
MaxLen == 4              \* records in the first file
MaxSeqLen == 2           \* seq_length is drawn from 1..MaxSeqLen
MaxResident == 2         \* max_midi_files_in_memory is drawn from 1..MaxResident
MaxIter == 3             \* iterations of the training loop
MaxRot == 2              \* rotations per run
MaxLoaded == 1           \* length of a pre-bound loaded_files list
MaxEventBytes == 7       \* bytes of one MIDI event given to load_midi_file
MaxTime == 1             \* time value of an event or of a record
MaxRecords == 3          \* records given to create_midi_track
MaxStored == 3           \* records of the stream given to extract_samples

\* scalars handed to the model are counted in tenths, the scale of the noise
\* (np.random.normal(scale=0.1), lines 212-213)
Tenths == 10

VARIABLES
    \* ---- the corpus (file system), fixed during a run
    file_type,           \* file index -> "type0" | "type1" | "bad"
    \* ---- hyperparameters (cell 5), fixed during a run
    seq_length,
    max_midi_files_in_memory,
    \* ---- the pool (cell 9) and the training loop (cell 11)
    midis_array,         \* list of loaded record arrays: [src, n]
    midi_times_array,    \* list of loaded time arrays: [src, n]
    p_list,              \* list of cursors
    rnn_state1_list,     \* list of first-stage recurrent states
    rnn_state2_list,     \* list of second-stage recurrent states
    loaded_files,        \* Unbound, or Bound(a list of file indices)
    current_file,
    file_choice,
    file_loaded,
    is_midi_0_ret,       \* what the last call of is_midi_0 gave its caller
    iteration,
    p,                   \* the cursor read at line 631
    fed,                 \* the states fed to the model (feed_dict ic0, ic1)
    states1f_val,
    states2f_val,
    input_rows,          \* the stream positions sliced as input (lines 208-209)
    target_rows,         \* the stream positions sliced as target (lines 210-211)
    pc,                  \* position in the training loop
    \* ---- history
    rotations,           \* completed rotations
    log,                 \* admissions, exhaustion resets and served windows
    \* ---- the codec: load_midi_file and create_midi_track
    midi,                \* the messages of the file: [bytes, time]
    ticks_per_beat,
    midi_data,           \* load_midi_file's result: rows of 40 bits
    midi_time,           \* load_midi_file's result: one time per row
    midi_notes,          \* create_midi_track's input rows
    midi_timing,         \* create_midi_track's input times
    aggregator,
    aggregator_times,
    track,               \* the messages appended to the track: [bytes, time]
    cpc,                 \* position in the codec
    \* ---- extract_samples on the contents of one stream
    stored_midi,         \* midis_array[current_file]: rows of bits
    stored_times,        \* midi_times_array[current_file]: one time per row
    noise_midi,          \* the draw of line 212, one value per row
    noise_time,          \* the draw of line 213, one value per row
    random_int,          \* the draw of line 217
    input_midi_val,
    input_time_val,
    target_midi_val,
    target_time_val,
    xpc,                 \* position in extract_samples
    \* ---- the generation cell on the contents of the same stream
    midi_data_vals,      \* the rows collected for create_midi_track
    midi_time_vals,      \* the times collected, one array of 1 per row
    tstep,               \* the t of line 724
    gpc                  \* position in the generation cell

poolVars == <<file_type, seq_length, max_midi_files_in_memory, midis_array,
              midi_times_array, p_list, rnn_state1_list, rnn_state2_list,
              loaded_files, current_file, file_choice, file_loaded,
              is_midi_0_ret, iteration, p, fed, states1f_val, states2f_val, input_rows,
              target_rows, pc, rotations, log>>

codecVars == <<midi, ticks_per_beat, midi_data, midi_time, midi_notes,
               midi_timing, aggregator, aggregator_times, track, cpc>>

sampleVars == <<stored_midi, stored_times, noise_midi, noise_time, random_int,
                input_midi_val, input_time_val, target_midi_val,
                target_time_val, xpc, midi_data_vals, midi_time_vals, tstep,
                gpc>>

vars == <<poolVars, codecVars, sampleVars>>

(***************************************************************************)
(* Helpers for Python lists.                                               *)
(***************************************************************************)
Min(a, b) == IF a < b THEN a ELSE b

\* list[i] for a Python index i >= 0
At(list, i) == list[i + 1]

\* list with list[i] = v
Put(list, i, v) == [list EXCEPT ![i + 1] = v]

\* list[lo:hi] for 0 <= lo, 0 <= hi
PySlice(list, lo, hi) == SubSeq(list, lo + 1, Min(hi, Len(list)))

\* x in list
InList(x, list) == \E k \in DOMAIN list : list[k] = x

Last(list) == list[Len(list)]

Files == 0 .. (NumFiles - 1)

\* a name no cell has assigned yet
Unbound == [bound |-> FALSE, list |-> <<>>]
Bound(list) == [bound |-> TRUE, list |-> list]

\* file_choice before line 613 first assigns it (it is not read before)
NoChoice == 0 - 1

NoState == <<0, 0>>

(***************************************************************************)
(* The external collaborators.                                             *)
(***************************************************************************)
\* sess.run(zero_state1), sess.run(zero_state2)
zero_state1 == <<1, 0>>
zero_state2 == <<2, 0>>

\* sess.run([states1f, states2f, ...]): the states returned for the k-th
\* window are fresh values, distinct per stage and per call
states1f(k) == <<1, k>>
states2f(k) == <<2, k>>

\* a test without the except branch: the parse error reaches the caller
IsMidi0Outcome_NoExcept(f) ==
    IF file_type[f] = "bad" THEN "raised"
    ELSE IF file_type[f] = "type0" THEN "true" ELSE "false"

\* lines 196-200: mido.MidiFile(filename).type == 0 inside try; a file that
\* cannot be read or parsed makes mido.MidiFile raise, and the except
\* branch returns False
IsMidi0Outcome(f) ==
    IF file_type[f] = "bad" THEN "false"
    ELSE IF file_type[f] = "type0" THEN "true" ELSE "false"

\* is_midi_0(file_list[f]): True exactly for a parseable type-0 file
is_midi_0(f) == IsMidi0Outcome(f) = "true"

\* load_midi_file(file_list[f]) returns arrays of the file's n records
LoadedArray(f, n) == [src |-> f, n |-> n]

(***************************************************************************)
(* The event codec.                                                        *)
(***************************************************************************)
\* 2^n for n in 0 .. 7
Pow2(n) == <<1, 2, 4, 8, 16, 32, 64, 128>>[n + 1]

\* np.zeros((5))
Zeros5 == <<0, 0, 0, 0, 0>>

\* line 188: np.asarray(midi_data, dtype=np.dtype('B')) keeps the low 8 bits
AsUint8(row) == [k \in 1 .. 5 |-> row[k] % 256]

\* line 190: np.unpackbits(midi_data, axis=1), most significant bit first
UnpackBits(row) ==
    [j \in 1 .. 40 |-> (row[((j - 1) \div 8) + 1] \div Pow2(7 - ((j - 1) % 8))) % 2]

\* line 119: np.packbits(msg_array, axis=0), a nonzero entry is a set bit
PackBits(bits) ==
    [k \in 1 .. 5 |->
        LET b(i) == IF bits[8 * (k - 1) + i] # 0 THEN Pow2(8 - i) ELSE 0
        IN  b(1) + b(2) + b(3) + b(4) + b(5) + b(6) + b(7) + b(8)]

\* the loop over the bytes with a record that is not cleared after it is
\* appended
RECURSIVE LoadBytes_Stale(_, _, _, _, _)
LoadBytes_Stale(bs, time, ind, cur, out) ==
    IF ind >= Len(bs) THEN out
    ELSE LET c1 == IF Len(bs) > 3 THEN [cur EXCEPT ![1] = 1] ELSE cur
             c2 == [c1 EXCEPT ![2 + (ind % 3)] = bs[ind + 1]]
             c3 == [c2 EXCEPT ![5] = (ind % 3) + 1]
         IN  IF (ind + 1) % 3 = 0 \/ ind + 1 = Len(bs)
             THEN LoadBytes_Stale(bs, time, ind + 1, c3,
                                  [data |-> Append(out.data, c3),
                                   time |-> Append(out.time, time * ticks_per_beat * 2)])
             ELSE LoadBytes_Stale(bs, time, ind + 1, c2, out)

\* lines 179-187: the loop over the bytes of one message, from byte ind on;
\* cur is the record being filled, out the rows and times appended so far
RECURSIVE LoadBytes(_, _, _, _, _)
LoadBytes(bs, time, ind, cur, out) ==
    IF ind >= Len(bs) THEN out
    ELSE LET c1 == IF Len(bs) > 3 THEN [cur EXCEPT ![1] = 1] ELSE cur
             c2 == [c1 EXCEPT ![2 + (ind % 3)] = bs[ind + 1]]
             c3 == [c2 EXCEPT ![5] = (ind % 3) + 1]
         IN  IF (ind + 1) % 3 = 0 \/ ind + 1 = Len(bs)
             THEN LoadBytes(bs, time, ind + 1, Zeros5,
                            [data |-> Append(out.data, c3),
                             time |-> Append(out.time, time * ticks_per_beat * 2)])
             ELSE LoadBytes(bs, time, ind + 1, c2, out)

\* lines 177-187: the loop over the messages of the file
RECURSIVE LoadMessages(_, _, _)
LoadMessages(msgs, k, out) ==
    IF k > Len(msgs) THEN out
    ELSE LoadMessages(msgs, k + 1,
                      LoadBytes(msgs[k].bytes, msgs[k].time, 0, Zeros5, out))

\* lines 175-191: load_midi_file's two results
load_midi_file(msgs) ==
    LET out == LoadMessages(msgs, 1, [data |-> <<>>, time |-> <<>>])
    IN  [data |-> [k \in 1 .. Len(out.data) |-> UnpackBits(AsUint8(out.data[k]))],
         time |-> out.time]

\* mido's message table: the length of the message a status byte starts,
\* 0 for a byte that starts none (0xF0, system exclusive, is of any length)
StatusLength(b) ==
    IF b >= 128 /\ b <= 191 THEN 3
    ELSE IF b >= 192 /\ b <= 223 THEN 2
    ELSE IF b >= 224 /\ b <= 239 THEN 3
    ELSE IF b \in {241, 243} THEN 2
    ELSE IF b = 242 THEN 3
    ELSE IF b \in {246, 248, 250, 251, 252, 254, 255} THEN 1
    ELSE 0

\* lines 127, 135: Message.from_bytes returns a message for these byte
\* strings and raises for every other one
FromBytesOk(bs) ==
    /\ Len(bs) >= 1
    /\ IF bs[1] = 240
       THEN /\ Len(bs) >= 2
            /\ bs[Len(bs)] = 247
            /\ \A i \in 2 .. (Len(bs) - 1) : bs[i] <= 127
       ELSE /\ StatusLength(bs[1]) = Len(bs)
            /\ \A i \in 2 .. Len(bs) : bs[i] <= 127

Sum(seq) ==
    LET RECURSIVE S(_)
        S(k) == IF k = 0 THEN 0 ELSE seq[k] + S(k - 1)
    IN  S(Len(seq))

\* np.round of num/den (den > 0, num >= 0): to the nearest, halves to even
RoundHalfEven(num, den) ==
    LET q == num \div den
        r == num % den
    IN  IF 2 * r < den THEN q
        ELSE IF 2 * r > den THEN q + 1
        ELSE IF q % 2 = 0 THEN q ELSE q + 1

\* lines 128, 136: max(0, int(np.round(np.mean(times) * 10)))
MessageTime(times) == RoundHalfEven(10 * Sum(times), Len(times))

\* all three byte slots, whatever the length field says
AggregateBytes_All3(rec) == SubSeq(rec, 2, 4)
OwnBytes_All3(rec) == SubSeq(rec, 2, 4)

\* lines 121-123: the valid bytes of a continuation record, its time once
\* per byte
AggregateBytes(rec) == SubSeq(rec, 2, 1 + Min(3, rec[5]))

\* line 135: msg_array[1:1+min(3,msg_array[4])]
OwnBytes(rec) == SubSeq(rec, 2, 1 + Min(3, rec[5]))

\* lines 125-133: the flush of the aggregator before a record of its own
FlushTrack(st) ==
    IF Len(st.aggregator) > 0 /\ FromBytesOk(st.aggregator)
    THEN Append(st.track, [bytes |-> st.aggregator,
                           time |-> MessageTime(st.aggregator_times)])
    ELSE st.track

\* an aggregator that keeps the bytes of a flush that failed
ClearedAggregator_KeepFailed(st) ==
    IF Len(st.aggregator) > 0 /\ ~FromBytesOk(st.aggregator)
    THEN [aggregator |-> st.aggregator, aggregator_times |-> st.aggregator_times]
    ELSE [aggregator |-> <<>>, aggregator_times |-> <<>>]

\* lines 132-133: the aggregator after a flush, made or failed (an empty
\* aggregator is left as it is, empty)
ClearedAggregator(st) == [aggregator |-> <<>>, aggregator_times |-> <<>>]

\* lines 119-139: the body of the loop for one input row and its time
DecodeRecord(st, bits, t) ==
    LET msg_array == CHOOSE a \in {PackBits(bits)} : TRUE
    IN  IF msg_array[1] > 0
        THEN LET n == Len(AggregateBytes(msg_array))
             IN  [aggregator |-> st.aggregator \o AggregateBytes(msg_array),
                  aggregator_times |-> st.aggregator_times \o [i \in 1 .. n |-> t],
                  track |-> st.track]
        ELSE LET flushed == FlushTrack(st)
                 cleared == ClearedAggregator(st)
             IN  [aggregator |-> cleared.aggregator,
                  aggregator_times |-> cleared.aggregator_times,
                  track |-> IF FromBytesOk(OwnBytes(msg_array))
                            THEN Append(flushed, [bytes |-> OwnBytes(msg_array),
                                                  time |-> MessageTime(<<t>>)])
                            ELSE flushed]

\* lines 116-139: create_midi_track's loop over its input
RECURSIVE DecodeFrom(_, _, _, _)
DecodeFrom(st, notes, timing, k) ==
    IF k > Len(notes) THEN st
    ELSE LET next == CHOOSE s \in {DecodeRecord(st, notes[k], timing[k])} : TRUE
         IN  DecodeFrom(next, notes, timing, k + 1)

\* an end of input that flushes what the aggregator still holds
EndOfInput_Flush(st) ==
    [aggregator |-> <<>>, aggregator_times |-> <<>>, track |-> FlushTrack(st)]

\* lines 140-143: after the loop the file is saved; the aggregator is not
\* looked at again
EndOfInput(st) == st

create_midi_track(notes, timing) ==
    EndOfInput(DecodeFrom([aggregator |-> <<>>, aggregator_times |-> <<>>,
                           track |-> <<>>],
                          notes, timing, 1))

\* the generation cell is not running
GenerationIdle ==
    /\ midi_data_vals = <<>>
    /\ midi_time_vals = <<>>
    /\ tstep = 0
    /\ gpc = "idle"

\* extract_samples is not running
SampleIdle ==
    /\ stored_midi = <<>>
    /\ stored_times = <<>>
    /\ noise_midi = <<>>
    /\ noise_time = <<>>
    /\ random_int = 0
    /\ input_midi_val = <<>>
    /\ input_time_val = <<>>
    /\ target_midi_val = <<>>
    /\ target_time_val = <<>>
    /\ xpc = "idle"
    /\ GenerationIdle

\* the codec is not running
CodecIdle ==
    /\ midi = <<>>
    /\ ticks_per_beat = 1
    /\ midi_data = <<>>
    /\ midi_time = <<>>
    /\ midi_notes = <<>>
    /\ midi_timing = <<>>
    /\ aggregator = <<>>
    /\ aggregator_times = <<>>
    /\ track = <<>>
    /\ cpc = "idle"

(***************************************************************************)
(* Pool initialisation (cell 9).  file_list[0] is loaded without a format  *)
(* test; it must parse, or the cell fails before the loop.  loaded_files   *)
(* is read at lines 611 and 628 and assigned by no cell before them: a     *)
(* fresh kernel has it unbound, a kernel that kept a binding has a list.   *)
(***************************************************************************)
LoadedFilesChoices ==
    {Unbound} \cup {Bound(l) : l \in UNION {[1 .. k -> Files] : k \in 0 .. MaxLoaded}}

PoolInit ==
    /\ file_type \in [Files -> {"type0", "type1", "bad"}]
    /\ file_type[0] \in {"type0", "type1"}
    /\ seq_length \in 1 .. MaxSeqLen
    /\ max_midi_files_in_memory \in 1 .. MaxResident
    /\ \E n \in 1 .. MaxLen :
          /\ midis_array = <<LoadedArray(0, n)>>
          /\ midi_times_array = <<LoadedArray(0, n)>>
    /\ p_list = <<0>>
    /\ rnn_state1_list = <<zero_state1>>
    /\ rnn_state2_list = <<zero_state2>>
    /\ loaded_files \in LoadedFilesChoices
    /\ current_file = 0
    /\ file_choice = NoChoice
    /\ file_loaded = FALSE
    /\ is_midi_0_ret = "none"
    /\ iteration = 0
    /\ p = 0
    /\ fed = <<NoState, NoState>>
    /\ states1f_val = NoState
    /\ states2f_val = NoState
    /\ input_rows = <<>>
    /\ target_rows = <<>>
    /\ pc = "pick"
    /\ rotations = 0
    /\ log = <<[ev |-> "admit", src |-> 0]>>
    /\ CodecIdle
    /\ SampleIdle


(***************************************************************************)
(* The training loop (cell 11), one action per step of an iteration.       *)
(***************************************************************************)
\* a while test that also stops a stream whose last window just fits
Exhausted_Early(cf) == At(p_list, cf) + seq_length + 1 >= At(midis_array, cf).n

\* a while test that leaves no room for the target's extra step
Exhausted_NoTarget(cf) == At(p_list, cf) + seq_length > At(midis_array, cf).n

\* line 602: the while test of the exhaustion loop
Exhausted(cf) == At(p_list, cf) + seq_length + 1 > At(midis_array, cf).n

\* the row positions of an array of n rows
Positions(n) == [k \in 1 .. n |-> k - 1]

\* lines 208-209: arr[p:p+seq_length]
InputSlice(arr, p0) == PySlice(arr, p0, p0 + seq_length)

\* a target slice that is not shifted by one step
TargetSlice_NoShift(arr, p0) == PySlice(arr, p0, p0 + seq_length)

\* lines 210-211: arr[p+1:p+seq_length+1]
TargetSlice(arr, p0) == PySlice(arr, p0 + 1, p0 + seq_length + 1)

\* lines 208-211: reshape(seq_length, ...) raises ValueError for a slice
\* that is not of seq_length rows
ReshapeOk(rows) == Len(rows) = seq_length

\* lines 638-641: the states handed to the model for the selected stream
FeedStates == <<At(rnn_state1_list, current_file), At(rnn_state2_list, current_file)>>

\* lines 604-606: the reset of the stream found exhausted
ResetCursor == Put(p_list, current_file, 0)
ResetState1 == Put(rnn_state1_list, current_file, zero_state1)
ResetState2 == Put(rnn_state2_list, current_file, zero_state2)

\* lines 623-628: list[1:max_midi_files_in_memory]
EvictSlice(list) == PySlice(list, 1, max_midi_files_in_memory)

\* line 622: the eviction test reads the record list only
EvictionDue == Len(midis_array) > max_midi_files_in_memory

\* a rotation that appends the chosen file's records and never evicts
MidisAfterRotation_Grow == Append(midis_array, LoadedArray(file_choice, seq_length + 1))

\* lines 619-623: the record list after a rotation (nothing is appended to it)
MidisAfterRotation ==
    IF EvictionDue THEN EvictSlice(midis_array) ELSE midis_array

\* lines 619-624: the time list after a rotation (nothing is appended to it)
TimesAfterRotation ==
    IF EvictionDue THEN EvictSlice(midi_times_array) ELSE midi_times_array

\* lines 619, 625: the cursor list after a rotation
CursorsAfterRotation ==
    IF EvictionDue THEN EvictSlice(Append(p_list, 0)) ELSE Append(p_list, 0)

\* lines 620, 626
States1AfterRotation ==
    IF EvictionDue THEN EvictSlice(Append(rnn_state1_list, zero_state1))
                   ELSE Append(rnn_state1_list, zero_state1)

\* lines 621, 627
States2AfterRotation ==
    IF EvictionDue THEN EvictSlice(Append(rnn_state2_list, zero_state2))
                   ELSE Append(rnn_state2_list, zero_state2)

\* line 628
LoadedAfterRotation ==
    IF EvictionDue THEN Bound(EvictSlice(loaded_files.list)) ELSE loaded_files

\* a write-back that stores the first stage's state in both lists
CommitState2_Stage1 == Put(rnn_state2_list, current_file, states1f_val)

\* a cursor advance that skips the target's extra step as well
AdvanceCursor_Plus1 ==
    Put(p_list, current_file, At(p_list, current_file) + seq_length + 1)

\* lines 647-648: the write-back of the returned states
CommitState1 == Put(rnn_state1_list, current_file, states1f_val)
CommitState2 == Put(rnn_state2_list, current_file, states2f_val)

\* line 653
AdvanceCursor == Put(p_list, current_file, At(p_list, current_file) + seq_length)

\* history: consecutive resets of one stream are recorded once
LogReset(cf) ==
    LET e == [ev |-> "reset", stream |-> cf]
    IN  IF Last(log) = e THEN log ELSE Append(log, e)

\* line 601: a uniformly random resident index
Pick ==
    /\ pc = "pick"
    /\ iteration < MaxIter
    /\ \E i \in 0 .. (Len(midis_array) - 1) : current_file' = i
    /\ pc' = "test"
    /\ UNCHANGED <<is_midi_0_ret, codecVars, sampleVars, input_rows, target_rows, file_type, seq_length, max_midi_files_in_memory, midis_array,
                   midi_times_array, p_list, rnn_state1_list, rnn_state2_list,
                   loaded_files, file_choice, file_loaded, iteration, p, fed,
                   states1f_val, states2f_val, rotations, log>>

\* line 599: the range is used up
LoopEnd ==
    /\ pc = "pick"
    /\ iteration = MaxIter
    /\ pc' = "done"
    /\ UNCHANGED <<is_midi_0_ret, codecVars, sampleVars, input_rows, target_rows, file_type, seq_length, max_midi_files_in_memory, midis_array,
                   midi_times_array, p_list, rnn_state1_list, rnn_state2_list,
                   loaded_files, current_file, file_choice, file_loaded,
                   iteration, p, fed, states1f_val, states2f_val, rotations, log>>

\* line 602: an index into an empty pool raises IndexError
WhileTest ==
    /\ pc = "test"
    /\ pc' = IF current_file < 0 THEN "crashed"
             ELSE IF Exhausted(current_file) THEN "reset" ELSE "extract"
    /\ UNCHANGED <<is_midi_0_ret, codecVars, sampleVars, input_rows, target_rows, file_type, seq_length, max_midi_files_in_memory, midis_array,
                   midi_times_array, p_list, rnn_state1_list, rnn_state2_list,
                   loaded_files, current_file, file_choice, file_loaded,
                   iteration, p, fed, states1f_val, states2f_val, rotations, log>>

\* lines 604-610: reset the exhausted stream, re-pick, roll for a rotation
ResetExhausted ==
    /\ pc = "reset"
    /\ p_list' = ResetCursor
    /\ rnn_state1_list' = ResetState1
    /\ rnn_state2_list' = ResetState2
    /\ log' = LogReset(current_file)
    /\ \E i \in 0 .. (Len(midis_array) - 1) : current_file' = i
    /\ \E rotate \in BOOLEAN :
          /\ rotate => rotations < MaxRot
          /\ pc' = IF rotate THEN "search" ELSE "test"
          /\ file_loaded' = IF rotate THEN FALSE ELSE file_loaded
    /\ UNCHANGED <<is_midi_0_ret, codecVars, sampleVars, input_rows, target_rows, file_type, seq_length, max_midi_files_in_memory, midis_array,
                   midi_times_array, loaded_files, file_choice, iteration, p,
                   fed, states1f_val, states2f_val, rotations>>

\* a while test that looks at loaded_files only
SearchContinues_NoLoadedTest ==
    /\ loaded_files.bound
    /\ InList(file_choice, loaded_files.list)

\* line 611: the while test of the candidate search
SearchContinues ==
    \/ ~file_loaded
    \/ /\ loaded_files.bound
       /\ InList(file_choice, loaded_files.list)

\* lines 611-618: one pass of the candidate search
SearchIter ==
    /\ pc = "search"
    /\ SearchContinues
    /\ \E c \in Files :
          /\ file_choice' = c
          /\ is_midi_0_ret' = IsMidi0Outcome(c)
          /\ file_loaded' = (file_loaded \/ is_midi_0(c))
    /\ UNCHANGED <<codecVars, sampleVars, input_rows, target_rows, file_type, seq_length, max_midi_files_in_memory, midis_array,
                   midi_times_array, p_list, rnn_state1_list, rnn_state2_list,
                   loaded_files, current_file, iteration, p, fed, states1f_val,
                   states2f_val, pc, rotations, log>>

\* line 611: loaded_files is read once file_loaded is true; unbound, the
\* read raises NameError outside the try and the cell stops
SearchNameError ==
    /\ pc = "search"
    /\ file_loaded
    /\ ~loaded_files.bound
    /\ pc' = "crashed"
    /\ UNCHANGED <<is_midi_0_ret, codecVars, sampleVars, input_rows, target_rows, file_type, seq_length, max_midi_files_in_memory, midis_array,
                   midi_times_array, p_list, rnn_state1_list, rnn_state2_list,
                   loaded_files, current_file, file_choice, file_loaded,
                   iteration, p, fed, states1f_val, states2f_val, rotations, log>>

\* lines 611, 619-629: the search ends; cursor and states are appended, the
\* eviction test is made, the last record array becomes the current one
Rotate ==
    /\ pc = "search"
    /\ loaded_files.bound
    /\ ~SearchContinues
    /\ midis_array' = MidisAfterRotation
    /\ midi_times_array' = TimesAfterRotation
    /\ p_list' = CursorsAfterRotation
    /\ rnn_state1_list' = States1AfterRotation
    /\ rnn_state2_list' = States2AfterRotation
    /\ loaded_files' = LoadedAfterRotation
    /\ current_file' = Len(midis_array') - 1
    /\ rotations' = rotations + 1
    /\ log' = Append(log, [ev |-> "admit", src |-> file_choice])
    /\ pc' = "test"
    /\ UNCHANGED <<is_midi_0_ret, codecVars, sampleVars, input_rows, target_rows, file_type, seq_length, max_midi_files_in_memory, file_choice,
                   file_loaded, iteration, p, fed, states1f_val, states2f_val>>

\* lines 631-633, 208-211: the cursor is read and the rows are sliced
Extract ==
    /\ pc = "extract"
    /\ p' = At(p_list, current_file)
    /\ input_rows' = InputSlice(Positions(At(midis_array, current_file).n), p')
    /\ target_rows' = TargetSlice(Positions(At(midis_array, current_file).n), p')
    /\ pc' = IF ReshapeOk(input_rows') /\ ReshapeOk(target_rows')
             THEN "run" ELSE "crashed"
    /\ UNCHANGED <<is_midi_0_ret, codecVars, sampleVars, file_type, seq_length, max_midi_files_in_memory, midis_array,
                   midi_times_array, p_list, rnn_state1_list, rnn_state2_list,
                   loaded_files, current_file, file_choice, file_loaded,
                   iteration, fed, states1f_val, states2f_val, rotations, log>>

\* lines 635-646: the model call
RunModel ==
    /\ pc = "run"
    /\ fed' = FeedStates
    /\ states1f_val' = states1f(iteration + 1)
    /\ states2f_val' = states2f(iteration + 1)
    /\ log' = Append(log, [ev |-> "window", stream |-> current_file, p |-> p,
                           fed |-> fed', ret |-> <<states1f_val', states2f_val'>>])
    /\ pc' = "commit_state"
    /\ UNCHANGED <<is_midi_0_ret, codecVars, sampleVars, input_rows, target_rows, file_type, seq_length, max_midi_files_in_memory, midis_array,
                   midi_times_array, p_list, rnn_state1_list, rnn_state2_list,
                   loaded_files, current_file, file_choice, file_loaded,
                   iteration, p, rotations>>

\* lines 647-648
CommitState ==
    /\ pc = "commit_state"
    /\ rnn_state1_list' = CommitState1
    /\ rnn_state2_list' = CommitState2
    /\ pc' = "commit_cursor"
    /\ UNCHANGED <<is_midi_0_ret, codecVars, sampleVars, input_rows, target_rows, file_type, seq_length, max_midi_files_in_memory, midis_array,
                   midi_times_array, p_list, loaded_files, current_file,
                   file_choice, file_loaded, iteration, p, fed, states1f_val,
                   states2f_val, rotations, log>>

\* line 653, and the next value of the loop variable
CommitCursor ==
    /\ pc = "commit_cursor"
    /\ p_list' = AdvanceCursor
    /\ iteration' = iteration + 1
    /\ pc' = "pick"
    /\ UNCHANGED <<is_midi_0_ret, codecVars, sampleVars, input_rows, target_rows, file_type, seq_length, max_midi_files_in_memory, midis_array,
                   midi_times_array, rnn_state1_list, rnn_state2_list,
                   loaded_files, current_file, file_choice, file_loaded, p, fed,
                   states1f_val, states2f_val, rotations, log>>

Init == PoolInit

Next ==
    \/ Pick
    \/ LoopEnd
    \/ WhileTest
    \/ ResetExhausted
    \/ SearchIter
    \/ SearchNameError
    \/ Rotate
    \/ Extract
    \/ RunModel
    \/ CommitState
    \/ CommitCursor

Spec == Init /\ [][Next]_vars

\* the random choices are fair: each outcome of the rotation roll (line
\* 609) and each file of the candidate search (line 613) comes up again and
\* again, and the loop goes on while it can
Fairness ==
    /\ WF_vars(Next)
    /\ SF_vars(ResetExhausted /\ pc' = "search")
    /\ SF_vars(ResetExhausted /\ pc' = "test")
    /\ \A c \in Files : SF_vars(SearchIter /\ file_choice' = c)

SpecFair == Init /\ [][Next]_vars /\ Fairness

\* the cell is interrupted (KeyboardInterrupt), or a call of the iteration
\* raises (lines 650-652 between the two write-backs included): the loop
\* stops where it is and the kernel keeps the pool as it is
Interrupt ==
    /\ pc \in {"test", "reset", "search", "extract", "run", "commit_state",
               "commit_cursor"}
    /\ pc' = "interrupted"
    /\ UNCHANGED <<is_midi_0_ret, codecVars, sampleVars, input_rows, target_rows, file_type,
                   seq_length, max_midi_files_in_memory, midis_array,
                   midi_times_array, p_list, rnn_state1_list, rnn_state2_list,
                   loaded_files, current_file, file_choice, file_loaded,
                   iteration, p, fed, states1f_val, states2f_val, rotations, log>>

NextInterrupt ==
    \/ Next
    \/ Interrupt

SpecInterrupt == Init /\ [][NextInterrupt]_vars


(***************************************************************************)
(* The codec at work: a file's messages are loaded, or the generation      *)
(* loop has collected rows; create_midi_track turns rows into a track.     *)
(***************************************************************************)
\* the training loop is not running
PoolStopped ==
    /\ file_type = [f \in Files |-> "type0"]
    /\ max_midi_files_in_memory = 1
    /\ midis_array = <<>>
    /\ midi_times_array = <<>>
    /\ p_list = <<>>
    /\ rnn_state1_list = <<>>
    /\ rnn_state2_list = <<>>
    /\ loaded_files = Unbound
    /\ current_file = 0
    /\ file_choice = NoChoice
    /\ file_loaded = FALSE
    /\ is_midi_0_ret = "none"
    /\ iteration = 0
    /\ fed = <<NoState, NoState>>
    /\ states1f_val = NoState
    /\ states2f_val = NoState
    /\ input_rows = <<>>
    /\ target_rows = <<>>
    /\ pc = "idle"
    /\ rotations = 0
    /\ log = <<>>

PoolIdle ==
    /\ PoolStopped
    /\ seq_length = 1
    /\ p = 0

\* byte values of the short messages given to load_midi_file: a data byte,
\* the status bytes of a 3-byte, a 2-byte and a 1-byte message
ShortByteVals == {64, 144, 192, 248}

\* byte values of the messages of more than 3 bytes
LongByteVals == {64, 144}

TicksPerBeatVals == {1, 3}

SeqsUpTo(S, n) == UNION {[1 .. k -> S] : k \in 1 .. n}

\* x.bytes() of the messages given to load_midi_file
EventBytes ==
    SeqsUpTo(ShortByteVals, 3) \cup
    {bs \in SeqsUpTo(LongByteVals, MaxEventBytes) : Len(bs) > 3}

\* x.bytes() of the messages of a file of two messages: no byte at all (an
\* event of zero bytes; mido's own messages have at least one), a 1-byte
\* and a 3-byte message, and a system exclusive message of 4 bytes
PairEventBytes == {<<>>, <<248>>, <<144, 64, 64>>, <<240, 64, 64, 247>>}

\* x.bytes() of the first two messages of a file of three messages: a
\* system exclusive message of 4 bytes, or a 3-byte message
LeadEventBytes == {<<240, 64, 64, 247>>, <<144, 64, 64>>}

\* the messages of the file given to load_midi_file
FileMessages ==
    {<<[bytes |-> bs, time |-> t]>> : bs \in EventBytes \cup {<<>>}, t \in 0 .. MaxTime}
    \cup
    {<<[bytes |-> b1, time |-> t1], [bytes |-> b2, time |-> t2]>> :
        b1 \in PairEventBytes, b2 \in PairEventBytes,
        t1 \in 0 .. MaxTime, t2 \in 0 .. MaxTime}
    \cup
    {<<[bytes |-> b1, time |-> t], [bytes |-> b2, time |-> t],
       [bytes |-> <<248>>, time |-> t]>> :
        b1 \in LeadEventBytes, b2 \in LeadEventBytes, t \in 0 .. MaxTime}

\* the valid bytes of the rows given to create_midi_track: the 3-byte
\* message 144 64 64, its pieces, and strings that are no message
RowByteStrings ==
    {<<>>, <<144>>, <<64>>, <<144, 64>>, <<64, 64>>, <<144, 64, 64>>,
     <<64, 64, 64>>}

\* the byte slots past the valid bytes are 0
Padded(bs) == [i \in 1 .. 3 |-> IF i <= Len(bs) THEN bs[i] ELSE 0]

\* the records the model can put out: a flag, three byte slots, a length
\* (a length above 3 goes with 3 valid bytes)
OutputRecords ==
    {<<f, Padded(bs)[1], Padded(bs)[2], Padded(bs)[3], Len(bs)>> :
        f \in {0, 1}, bs \in RowByteStrings} \cup
    {<<f, 144, 64, 64, 4>> : f \in {0, 1}}

\* the times that go with n rows: all equal, or rising by one per row
RowTimings(n) ==
    {[k \in 1 .. n |-> t] : t \in 0 .. MaxTime} \cup {[k \in 1 .. n |-> k - 1]}

\* a file of one or two messages is about to be loaded
InitLoad ==
    /\ PoolIdle
    /\ SampleIdle
    /\ midi \in FileMessages
    /\ ticks_per_beat \in TicksPerBeatVals
    /\ midi_data = <<>>
    /\ midi_time = <<>>
    /\ midi_notes = <<>>
    /\ midi_timing = <<>>
    /\ aggregator = <<>>
    /\ aggregator_times = <<>>
    /\ track = <<>>
    /\ cpc = "load"

\* the generation loop has collected rows and times (lines 713-740)
InitGenerated ==
    /\ PoolIdle
    /\ SampleIdle
    /\ midi = <<>>
    /\ ticks_per_beat = 1
    /\ midi_data = <<>>
    /\ midi_time = <<>>
    /\ \E rs \in SeqsUpTo(OutputRecords, MaxRecords) :
          /\ midi_notes = [k \in 1 .. Len(rs) |-> UnpackBits(rs[k])]
          /\ midi_timing \in RowTimings(Len(rs))
    /\ aggregator = <<>>
    /\ aggregator_times = <<>>
    /\ track = <<>>
    /\ cpc = "generated"

\* lines 172-191; with no record at all, np.asarray gives an array of one
\* dimension and np.unpackbits(..., axis=1) raises (line 190)
LoadMidiFile ==
    /\ cpc = "load"
    /\ \E out \in {load_midi_file(midi)} :
           /\ midi_data' = out.data
           /\ midi_time' = out.time
           /\ cpc' = IF out.data = <<>> THEN "load_failed" ELSE "loaded"
    /\ UNCHANGED <<poolVars, sampleVars, midi, ticks_per_beat, midi_notes, midi_timing,
                   aggregator, aggregator_times, track>>

\* the loaded rows and times are handed to create_midi_track
PassLoaded ==
    /\ cpc = "loaded"
    /\ midi_notes' = midi_data
    /\ midi_timing' = midi_time
    /\ cpc' = "generated"
    /\ UNCHANGED <<poolVars, sampleVars, midi, ticks_per_beat, midi_data, midi_time,
                   aggregator, aggregator_times, track>>

\* lines 113-143
CreateMidiTrack ==
    /\ cpc = "generated"
    /\ \E st \in {create_midi_track(midi_notes, midi_timing)} :
           /\ aggregator' = st.aggregator
           /\ aggregator_times' = st.aggregator_times
           /\ track' = st.track
    /\ cpc' = "saved"
    /\ UNCHANGED <<poolVars, sampleVars, midi, ticks_per_beat, midi_data, midi_time,
                   midi_notes, midi_timing>>

NextCodec ==
    \/ LoadMidiFile
    \/ PassLoaded
    \/ CreateMidiTrack

SpecLoad == InitLoad /\ [][NextCodec]_vars

SpecGenerated == InitGenerated /\ [][CreateMidiTrack]_vars

(***************************************************************************)
(* extract_samples on the contents of the selected stream.  A row is a     *)
(* sequence of scalars: 40 for a record, 1 for a time (reshape, lines      *)
(* 208-211).  The inputs are float32 copies; the targets are views of the  *)
(* stored arrays.                                                          *)
(***************************************************************************)
Max(a, b) == IF a > b THEN a ELSE b

\* reshape(seq_length, 1) of a slice of times
TimeColumn(times) == [i \in DOMAIN times |-> <<times[i]>>]

\* a column of one scalar per row as a flat array
Flat(col) == [i \in DOMAIN col |-> col[i][1]]

\* lines 208-209: astype(np.float32), a copy of the rows, in tenths
AsFloat32(rows) ==
    [i \in DOMAIN rows |-> [j \in DOMAIN rows[i] |-> Tenths * rows[i][j]]]

\* lines 212-213: input += noise
AddNoise(rows, noise) ==
    [i \in DOMAIN rows |-> [j \in DOMAIN rows[i] |-> rows[i][j] + noise[i][j]]]

\* lines 214-215: np.maximum(0, input)
ClampRows(rows) ==
    [i \in DOMAIN rows |-> [j \in DOMAIN rows[i] |-> Max(0, rows[i][j])]]

\* a gap that clears the first scalar of the row only
ZeroRow_FirstOnly(rows, r) ==
    [rows EXCEPT ![r + 1] = [j \in DOMAIN rows[r + 1] |->
                                IF j = 1 THEN 0 ELSE rows[r + 1][j]]]

\* lines 218-219: input[random_int] = np.zeros(...)
ZeroRow(rows, r) == [rows EXCEPT ![r + 1] = [j \in DOMAIN rows[r + 1] |-> 0]]

\* lines 208-219: the input handed back for the rows sliced at p0
Augmented(rows, noise, r) == ZeroRow(ClampRows(AddNoise(AsFloat32(rows), noise)), r)

\* an augmentation made in place, on the stored rows themselves
StoredAfter_InPlace(stored, p0, input) ==
    [k \in DOMAIN stored |->
        IF k - 1 >= p0 /\ k - 1 < p0 + seq_length THEN input[k - p0] ELSE stored[k]]

\* lines 208-219: astype copies, so the noise, the clamp and the gap act on
\* the copy and the stored array stays as it is
StoredAfter(stored, p0, input) == stored

\* the draws of lines 212-213 for one row: one value on the scalars that
\* are set in the stored row and one on the others; 0 - Tenths undoes a set
\* bit (a draw of -1.0 or less)
NoiseOnRow(row, a, b) == [j \in DOMAIN row |-> IF row[j] > 0 THEN a ELSE b]

NoisePairs == {<<0 - Tenths, 0 - 1>>, <<0 - Tenths, 1>>, <<0 - 1, 0 - 1>>, <<1, 1>>}

NoiseRows(rows) ==
    {[i \in DOMAIN rows |-> NoiseOnRow(rows[i], ab[i][1], ab[i][2])] :
        ab \in [DOMAIN rows -> NoisePairs]}

TimeNoiseRows(rows) ==
    {[i \in DOMAIN rows |-> <<c[i]>>] : c \in [DOMAIN rows -> {0 - Tenths, 1}]}

\* the records of a loaded stream: the 1-byte message 248, and the first
\* chunk of a longer message
StoredRecords == {<<0, 248, 0, 0, 1>>, <<1, 144, 64, 64, 3>>}

\* extract_samples is about to be called by the training loop, which has
\* tested p + seq_length + 1 <= length (line 602)
InitExtract ==
    /\ PoolStopped
    /\ CodecIdle
    /\ \E rs \in SeqsUpTo(StoredRecords, MaxStored) :
          /\ stored_midi = [k \in 1 .. Len(rs) |-> UnpackBits(rs[k])]
          /\ stored_times \in RowTimings(Len(rs))
    /\ seq_length \in 1 .. MaxSeqLen
    /\ p \in 0 .. MaxStored
    /\ p + seq_length + 1 <= Len(stored_midi)
    /\ noise_midi = <<>>
    /\ noise_time = <<>>
    /\ random_int = 0
    /\ input_midi_val = <<>>
    /\ input_time_val = <<>>
    /\ target_midi_val = <<>>
    /\ target_time_val = <<>>
    /\ xpc = "call"
    /\ GenerationIdle

\* lines 208-220
ExtractSamples ==
    /\ xpc = "call"
    /\ \E nm \in NoiseRows(InputSlice(stored_midi, p)),
          nt \in TimeNoiseRows(InputSlice(stored_times, p)),
          r \in 0 .. (seq_length - 1) :
          /\ noise_midi' = nm
          /\ noise_time' = nt
          /\ random_int' = r
          /\ input_midi_val' = Augmented(InputSlice(stored_midi, p), nm, r)
          /\ input_time_val' =
                 Augmented(TimeColumn(InputSlice(stored_times, p)), nt, r)
    /\ stored_midi' = StoredAfter(stored_midi, p, input_midi_val')
    /\ stored_times' =
           Flat(StoredAfter(TimeColumn(stored_times), p, input_time_val'))
    /\ target_midi_val' = TargetSlice(stored_midi', p)
    /\ target_time_val' = TimeColumn(TargetSlice(stored_times', p))
    /\ xpc' = "returned"
    /\ UNCHANGED <<poolVars, codecVars, midi_data_vals, midi_time_vals, tstep, gpc>>

SpecExtract == InitExtract /\ [][ExtractSamples]_vars

(***************************************************************************)
(* The generation cell (lines 711-740) on the contents of the stream that  *)
(* current_file selects.  The seed window is sliced and reshaped without   *)
(* astype: it is a view of the stored arrays, and a write to its first row *)
(* is a write to the first stored row.                                     *)
(***************************************************************************)
\* generated_midi_length (2500 at line 721), cut down
MaxGenerated == 2

\* lines 715-716: arr[0:seq_length]
SeedSlice(arr) == PySlice(arr, 0, seq_length)

\* midi_output is a sigmoid (line 380), a row of values of 0.0 to 1.0, here
\* in tenths: a saturated picture of a record, or 0.5 everywhere
ModelRows ==
    {[j \in DOMAIN UnpackBits(r) |-> Tenths * UnpackBits(r)[j]] : r \in StoredRecords}
        \cup {[j \in 1 .. 40 |-> Tenths \div 2]}

\* midi_time is a leaky relu (line 357): any sign; here whole numbers
ModelTimes == {0 - 1, 0, 1}

\* line 735: the value takes the dtype of the array it is written into,
\* int32 (line 190): the fraction is cut
CastInt32(row) == [j \in DOMAIN row |-> Max(0, row[j]) \div Tenths]

\* line 737: np.maximum(0, np.around(...).astype(np.int32))
AroundRow(row) == [j \in DOMAIN row |-> Max(0, RoundHalfEven(Max(0, row[j]), Tenths))]

\* lines 735-736: x[0] = value, x a view that starts at the first stored row
WriteFirstRow(stored, row) == [stored EXCEPT ![1] = row]

\* the generation cell is about to run on a loaded stream
InitGeneration ==
    /\ PoolStopped
    /\ CodecIdle
    /\ \E rs \in SeqsUpTo(StoredRecords, MaxStored) :
          /\ stored_midi = [k \in 1 .. Len(rs) |-> UnpackBits(rs[k])]
          /\ stored_times \in RowTimings(Len(rs))
    /\ seq_length \in 1 .. MaxSeqLen
    /\ p = 0
    /\ noise_midi = <<>>
    /\ noise_time = <<>>
    /\ random_int = 0
    /\ input_midi_val = <<>>
    /\ input_time_val = <<>>
    /\ target_midi_val = <<>>
    /\ target_time_val = <<>>
    /\ xpc = "idle"
    /\ midi_data_vals = <<>>
    /\ midi_time_vals = <<>>
    /\ tstep = 0
    /\ gpc = "start"

\* lines 711-721; reshape(seq_length, ...) raises ValueError for a stream of
\* fewer than seq_length rows
GenerationSeed ==
    /\ gpc = "start"
    /\ IF ReshapeOk(SeedSlice(stored_midi))
       THEN /\ input_midi_val' = SeedSlice(stored_midi)
            /\ input_time_val' = TimeColumn(SeedSlice(stored_times))
            /\ midi_data_vals' = <<input_midi_val'[1]>>
            /\ midi_time_vals' = <<input_time_val'[1]>>
            /\ gpc' = "loop"
       ELSE /\ gpc' = "crashed"
            /\ UNCHANGED <<input_midi_val, input_time_val, midi_data_vals,
                           midi_time_vals>>
    /\ tstep' = 0
    /\ UNCHANGED <<poolVars, codecVars, stored_midi, stored_times, noise_midi,
                   noise_time, random_int, target_midi_val, target_time_val, xpc>>

\* lines 724-738: one pass of the sampling loop
GenerationStep ==
    /\ gpc = "loop"
    /\ tstep < MaxGenerated
    /\ \E midi_data_current \in ModelRows, midi_time_current \in ModelTimes :
          /\ input_midi_val' =
                 WriteFirstRow(input_midi_val, CastInt32(midi_data_current))
          /\ input_time_val' =
                 WriteFirstRow(input_time_val, <<Max(0, midi_time_current)>>)
          /\ stored_midi' = WriteFirstRow(stored_midi, input_midi_val'[1])
          /\ stored_times' = WriteFirstRow(stored_times, input_time_val'[1][1])
          /\ midi_data_vals' = Append(midi_data_vals, AroundRow(midi_data_current))
          /\ midi_time_vals' = Append(midi_time_vals, <<Max(0, midi_time_current)>>)
    /\ tstep' = tstep + 1
    /\ UNCHANGED <<poolVars, codecVars, noise_midi, noise_time, random_int,
                   target_midi_val, target_time_val, xpc, gpc>>

\* line 740: create_midi_track(midi_data_vals, midi_time_vals)
GenerationTrack ==
    /\ gpc = "loop"
    /\ tstep = MaxGenerated
    /\ midi_notes' = midi_data_vals
    /\ midi_timing' = Flat(midi_time_vals)
    /\ \E st \in {create_midi_track(midi_notes', midi_timing')} :
           /\ aggregator' = st.aggregator
           /\ aggregator_times' = st.aggregator_times
           /\ track' = st.track
    /\ cpc' = "saved"
    /\ gpc' = "done"
    /\ UNCHANGED <<poolVars, midi, ticks_per_beat, midi_data, midi_time,
                   stored_midi, stored_times, noise_midi, noise_time, random_int,
                   input_midi_val, input_time_val, target_midi_val,
                   target_time_val, xpc, midi_data_vals, midi_time_vals, tstep>>

NextGeneration ==
    \/ GenerationSeed
    \/ GenerationStep
    \/ GenerationTrack

SpecGeneration == InitGeneration /\ [][NextGeneration]_vars

(***************************************************************************)
(* Properties of the pool and the training loop.                           *)
(***************************************************************************)
Admissions == {k \in DOMAIN log : log[k].ev = "admit"}
Windows == {k \in DOMAIN log : log[k].ev = "window"}

\* a step that completes a rotation
RotationStep == rotations' = rotations + 1

C5_EvictsOldestOnly ==
    [][(RotationStep /\ Len(p_list) + 1 > max_midi_files_in_memory) =>
          /\ p_list' = Tail(Append(p_list, 0))
          /\ rnn_state1_list' = Tail(Append(rnn_state1_list, zero_state1))
          /\ rnn_state2_list' = Tail(Append(rnn_state2_list, zero_state2))]_vars

\* C6 (as claimed): a completed rotation leaves one more resident stream (or
\* max_midi_files_in_memory of them), the last of which holds the records and
\* times of the chosen file with cursor 0 and zero states
C6_RotationAdmitsStream ==
    [][RotationStep =>
          /\ Len(midis_array') =
                Min(Len(midis_array) + 1, max_midi_files_in_memory)
          /\ Len(midis_array') >= 1
          /\ Last(midis_array').src = file_choice
          /\ Last(midi_times_array').src = file_choice
          /\ At(p_list', Len(midis_array') - 1) = 0
          /\ At(rnn_state1_list', Len(midis_array') - 1) = zero_state1
          /\ At(rnn_state2_list', Len(midis_array') - 1) = zero_state2]_vars

\* C7 (as claimed): no file is admitted twice, every admitted file is in
\* loaded_files, and no rotation admits a file that loaded_files holds
C7_NoDuplicateAdmission ==
    /\ \A j, k \in Admissions : log[j].src = log[k].src => j = k
    /\ \A k \in Admissions :
          loaded_files.bound /\ InList(log[k].src, loaded_files.list)

\* C8 (as claimed): every admitted file, the first one and every file the
\* candidate search ends with, passes is_midi_0
C8_AdmittedCompatible == \A k \in Admissions : is_midi_0(log[k].src)

\* C9: the write-back changes the two states of the selected stream to the
\* returned ones and nothing else, the advance adds seq_length to the
\* selected cursor and nothing else; any other change of an existing cursor
\* or state is the reset of the selected, exhausted stream to 0 and zero
C9_CommitFrame ==
    [][/\ Len(p_list') >= Len(p_list)
       /\ Len(rnn_state1_list') >= Len(rnn_state1_list)
       /\ Len(rnn_state2_list') >= Len(rnn_state2_list)
       /\ \A i \in 0 .. (Len(p_list) - 1) :
             LET dp == At(p_list', i) # At(p_list, i)
                 ds == \/ At(rnn_state1_list', i) # At(rnn_state1_list, i)
                       \/ At(rnn_state2_list', i) # At(rnn_state2_list, i)
             IN  /\ pc = "commit_state" =>
                       /\ ~dp
                       /\ i # current_file => ~ds
                       /\ i = current_file =>
                             /\ At(rnn_state1_list', i) = states1f_val
                             /\ At(rnn_state2_list', i) = states2f_val
                 /\ pc = "commit_cursor" =>
                       /\ ~ds
                       /\ i # current_file => ~dp
                       /\ i = current_file =>
                             At(p_list', i) = At(p_list, i) + seq_length
                 /\ (pc \notin {"commit_state", "commit_cursor"} /\ (dp \/ ds)) =>
                       /\ pc = "reset"
                       /\ i = current_file
                       /\ Exhausted(i)
                       /\ At(p_list', i) = 0
                       /\ At(rnn_state1_list', i) = zero_state1
                       /\ At(rnn_state2_list', i) = zero_state2]_vars

\* two committed windows and an exhaustion reset
C9_Witness ==
    /\ pc = "pick"
    /\ iteration >= 2
    /\ \E k \in DOMAIN log : log[k].ev = "reset"
    /\ At(p_list, current_file) = p + seq_length
    /\ At(rnn_state1_list, current_file) = states1f(iteration)
    /\ At(rnn_state2_list, current_file) = states2f(iteration)

\* the last event of stream i before position k of the history, 0 if none
LastEventBefore(i, k) ==
    LET prior == {j \in 1 .. (k - 1) :
                     /\ log[j].ev \in {"window", "reset"}
                     /\ log[j].stream = i}
    IN  IF prior = {} THEN 0
        ELSE CHOOSE j \in prior : \A m \in prior : m <= j

\* C10: every served window was fed the states returned for the previous
\* window of the same stream, or the zero states when the stream has served
\* no window since it was admitted or reset
C10_StateCarryover ==
    \A k \in Windows :
        LET j == LastEventBefore(log[k].stream, k)
        IN  IF j = 0 \/ log[j].ev = "reset"
            THEN log[k].fed = <<zero_state1, zero_state2>>
            ELSE log[k].fed = log[j].ret

\* a window fed the returned states of an earlier one, and a later window
\* fed the zero states after a reset
C10_Witness ==
    \E a, b, c, d \in DOMAIN log :
        /\ a < b /\ b < c /\ c < d
        /\ log[a].ev = "window" /\ log[b].ev = "window"
        /\ log[b].fed = log[a].ret
        /\ log[c].ev = "reset"
        /\ log[d].ev = "window"
        /\ log[d].fed = <<zero_state1, zero_state2>>

\* the last exhaustion reset of stream i before position k of the history,
\* 0 if none
LastResetBefore(i, k) ==
    LET prior == {j \in 1 .. (k - 1) :
                     log[j].ev = "reset" /\ log[j].stream = i}
    IN  IF prior = {} THEN 0
        ELSE CHOOSE j \in prior : \A m \in prior : m <= j

\* the windows served from stream i between positions a and b of the history
WindowsBetween(i, a, b) ==
    Cardinality({j \in (a + 1) .. (b - 1) :
                    log[j].ev = "window" /\ log[j].stream = i})

\* C11: a stream of N records whose cursor starts at 0 (when admitted or
\* after a reset) serves exactly floor((N-1)/seq_length) windows before it
\* is found exhausted, and never more than that many in a pass
C11_WindowsPerPass ==
    /\ \A k \in DOMAIN log :
          log[k].ev = "reset" =>
              WindowsBetween(log[k].stream, LastResetBefore(log[k].stream, k), k) =
                  (At(midis_array, log[k].stream).n - 1) \div seq_length
    /\ \A i \in 0 .. (Len(midis_array) - 1) :
          WindowsBetween(i, LastResetBefore(i, Len(log) + 1), Len(log) + 1) <=
              (At(midis_array, i).n - 1) \div seq_length

\* a stream of 3 records and seq_length 1 is found exhausted after 2 windows
C11_Witness ==
    /\ seq_length = 1
    /\ At(midis_array, 0).n = 3
    /\ \E k \in DOMAIN log :
          /\ log[k].ev = "reset"
          /\ WindowsBetween(0, LastResetBefore(0, k), k) = 2

\* C12: every window handed to the model has seq_length input rows, the
\* stream positions p .. p+seq_length-1 of the cursor p, and seq_length
\* target rows, the positions p+1 .. p+seq_length, all of them inside the
\* selected stream; target step i is the stored row of input step i+1
C12_WindowSlices ==
    pc \in {"run", "commit_state", "commit_cursor"} =>
        /\ p = At(p_list, current_file)
        /\ Len(input_rows) = seq_length
        /\ Len(target_rows) = seq_length
        /\ \A i \in 1 .. seq_length :
              /\ input_rows[i] = p + i - 1
              /\ target_rows[i] = p + i
              /\ input_rows[i] \in 0 .. (At(midis_array, current_file).n - 1)
              /\ target_rows[i] \in 0 .. (At(midis_array, current_file).n - 1)
        /\ \A i \in 1 .. (seq_length - 1) : target_rows[i] = input_rows[i + 1]

\* a window of two steps whose last target row is the last record
C12_Witness ==
    /\ pc = "run"
    /\ seq_length = 2
    /\ p = 0
    /\ At(midis_array, current_file).n = 3
    /\ input_rows = <<0, 1>>
    /\ target_rows = <<1, 2>>

\* the last window served from stream i, 0 if it has served none since its
\* last reset
LastWindowOf(i) ==
    LET j == LastEventBefore(i, Len(log) + 1)
    IN  IF j # 0 /\ log[j].ev = "window" THEN j ELSE 0

\* C13 (as claimed): whenever the loop is not inside an iteration (between
\* two iterations, at its end, or stopped by an interruption at any point),
\* no stream holds a recurrent state returned for a window while its cursor
\* is not past that window
C13_NoStateAheadOfCursor ==
    \A i \in 0 .. (Len(midis_array) - 1) :
        LET k == LastWindowOf(i)
        IN  (/\ pc \in {"pick", "done", "interrupted"}
             /\ k # 0
             /\ \/ At(rnn_state1_list, i) = log[k].ret[1]
                \/ At(rnn_state2_list, i) = log[k].ret[2]) =>
                At(p_list, i) = log[k].p + seq_length

\* C17: the cursor of every resident stream is at least 0 and less than the
\* number of its records, in every state of the loop and so at every
\* iteration boundary, after any picks, commits, resets and rotations
C17_CursorInStream ==
    \A i \in 0 .. (Len(midis_array) - 1) :
        /\ 0 <= At(p_list, i)
        /\ At(p_list, i) < At(midis_array, i).n

\* an iteration boundary after a reset and a rotation, with the cursor on
\* the last record of its stream
C17_Witness ==
    /\ pc = "pick"
    /\ rotations >= 1
    /\ \E k \in DOMAIN log : log[k].ev = "reset"
    /\ At(midis_array, 0).n >= 2
    /\ At(p_list, 0) = At(midis_array, 0).n - 1

\* C20 (as claimed): right after a completed rotation the current index
\* names the stream of the file that was just admitted
C20_ActiveIsAdmitted ==
    [][RotationStep =>
          /\ current_file' \in 0 .. (Len(midis_array') - 1)
          /\ At(midis_array', current_file').src = file_choice]_vars

\* C26 (as claimed): the list of cursors, the two lists of recurrent states,
\* the list of time arrays and the list of record arrays have the same
\* length in every state, and none is longer than max_midi_files_in_memory
C26_ListsAligned ==
    /\ Len(p_list) = Len(midis_array)
    /\ Len(rnn_state1_list) = Len(midis_array)
    /\ Len(rnn_state2_list) = Len(midis_array)
    /\ Len(midi_times_array) = Len(midis_array)
    /\ Len(midis_array) <= max_midi_files_in_memory

\* C23: is_midi_0 hands its caller True or False and never an exception:
\* False for a file that cannot be read or parsed, True exactly for a file
\* that parses as type 0
C23_IsMidi0NeverRaises ==
    /\ is_midi_0_ret \in {"none", "true", "false"}
    /\ is_midi_0_ret # "none" =>
          /\ file_type[file_choice] = "bad" => is_midi_0_ret = "false"
          /\ is_midi_0_ret = "true" <=> file_type[file_choice] = "type0"

\* the candidate search has tested a file that does not parse
C23_Witness ==
    /\ pc = "search"
    /\ file_choice # NoChoice
    /\ file_type[file_choice] = "bad"
    /\ is_midi_0_ret = "false"
    /\ ~file_loaded

\* C24 (as claimed): every iteration that reaches the exhaustion test goes
\* on, under fair choices, to a stream with p + seq_length + 1 <= length
\* and hands a window to the model; the loop never stalls or stops before
\* that, whatever the lengths of the resident streams; stated for the runs
\* in which loaded_files is bound, where no NameError at line 611 can end
\* the cell
C24_AlwaysServes == (pc = "test" /\ loaded_files.bound) ~> (pc = "run")

\* no file of file_list passes is_midi_0
NoCompatible == \A f \in Files : ~is_midi_0(f)

\* some file passes is_midi_0 and is not in loaded_files
Eligible ==
    \E f \in Files :
        /\ is_midi_0(f)
        /\ loaded_files.bound => ~InList(f, loaded_files.list)

ZeroStep(i) ==
    /\ \A j \in DOMAIN input_midi_val[i] : input_midi_val[i][j] = 0
    /\ input_time_val[i] = <<0>>

ZeroSteps == {i \in 1 .. seq_length : ZeroStep(i)}

\* every scalar of the stored row and time of input step i, with the noise
\* drawn for it, is 0 or less, so that the clamp leaves 0
ClampedToZero(i) ==
    /\ \A j \in DOMAIN noise_midi[i] :
          Tenths * stored_midi[p + i][j] + noise_midi[i][j] <= 0
    /\ Tenths * stored_times[p + i] + noise_time[i][1] <= 0

\* C18 (as claimed): every returned window has exactly one input step that
\* is zero in record and time, whatever the noise and the stored rows
C18_ExactlyOneZeroStep ==
    xpc = "returned" => Cardinality(ZeroSteps) = 1

\* C18 (amended): the input step at the random index is zero in record and
\* time, so every window has at least one such step; any other step is
\* zero exactly when the clamp leaves 0 in each of its scalars; a window of
\* one step has exactly one
C18_ChosenStepZero ==
    xpc = "returned" =>
        /\ (random_int + 1) \in ZeroSteps
        /\ \A i \in 1 .. seq_length :
              i # random_int + 1 => (ZeroStep(i) <=> ClampedToZero(i))
        /\ seq_length = 1 => Cardinality(ZeroSteps) = 1

\* a window of two steps: the first is the gap, the second keeps a positive
\* scalar under the noise
C18_Witness ==
    /\ xpc = "returned"
    /\ seq_length = 2
    /\ random_int = 0
    /\ ZeroSteps = {1}
    /\ \E j \in DOMAIN input_midi_val[2] : input_midi_val[2][j] > 0

\* C19: extract_samples leaves the stored records and times of the stream
\* as they were, and its targets are the stored rows and times at
\* p+1 .. p+seq_length, without noise, clamp or gap
C19_StoredUnchanged ==
    [][(xpc = "call" /\ xpc' = "returned") =>
          /\ stored_midi' = stored_midi
          /\ stored_times' = stored_times
          /\ target_midi_val' = [i \in 1 .. seq_length |-> stored_midi[p + 1 + i]]
          /\ target_time_val' =
                 [i \in 1 .. seq_length |-> <<stored_times[p + 1 + i]>>]]_vars

\* the row at p+1 is the gap of the input and is intact as the first target
C19_Witness ==
    /\ xpc = "returned"
    /\ seq_length = 2
    /\ random_int = 1
    /\ ZeroStep(2)
    /\ target_midi_val[1] = stored_midi[p + 2]
    /\ \E j \in DOMAIN target_midi_val[1] : target_midi_val[1][j] = 1
    /\ stored_times[p + 2] > 0
    /\ target_time_val[1] = <<stored_times[p + 2]>>

(***************************************************************************)
(* Properties of the codec.                                                *)
(***************************************************************************)
\* the 5-scalar record a stored row of 40 bits stands for
RecordOf(bits) == PackBits(bits)

\* the bytes a record declares valid: the first min(3, chunk_len) slots
ValidBytes(rec) == [i \in 1 .. Min(3, rec[5]) |-> rec[i + 1]]

CeilDiv3(n) == (n + 2) \div 3

\* the bytes of the messages of the track, in order
TrackBytes == [k \in 1 .. Len(track) |-> track[k].bytes]

NoteAt(k) == RecordOf(midi_notes[k])

\* the first record of the run of continuation records that ends right
\* before position k (k itself when there is no such run)
RECURSIVE RunStart(_)
RunStart(k) ==
    IF k > 1 /\ NoteAt(k - 1)[1] > 0 THEN RunStart(k - 1) ELSE k

\* the valid bytes of the records at positions j .. k-1, in order
RECURSIVE RunBytes(_, _)
RunBytes(j, k) ==
    IF j >= k THEN <<>> ELSE ValidBytes(NoteAt(j)) \o RunBytes(j + 1, k)

\* the messages due at the record at position k: none at a continuation
\* record; otherwise the aggregate of the run before it if that is a
\* message, then the record's own bytes if they are a message
DueAt(k) ==
    IF NoteAt(k)[1] > 0 THEN <<>>
    ELSE LET agg == RunBytes(RunStart(k), k)
             own == ValidBytes(NoteAt(k))
         IN  (IF FromBytesOk(agg) THEN <<agg>> ELSE <<>>) \o
             (IF FromBytesOk(own) THEN <<own>> ELSE <<>>)

RECURSIVE DueUpTo(_)
DueUpTo(k) == IF k = 0 THEN <<>> ELSE DueUpTo(k - 1) \o DueAt(k)

\* C15: bytes that form no message, aggregated or a record's own, drop that
\* one message only: the track holds, in input order, every aggregate and
\* every own byte string that is a message, and the aggregator holds the
\* bytes of the continuation records after the last other record, nothing
\* of a failed flush
C15_InvalidDropsOneMessage ==
    cpc = "saved" =>
        /\ TrackBytes = DueUpTo(Len(midi_notes))
        /\ aggregator = RunBytes(RunStart(Len(midi_notes) + 1), Len(midi_notes) + 1)

\* a failed flush (64 is no message), a record whose own bytes 64 64 are no
\* message, then a record whose own bytes are one: only the last is emitted
C15_Witness ==
    /\ cpc = "saved"
    /\ Len(midi_notes) = 3
    /\ NoteAt(1)[1] > 0 /\ ValidBytes(NoteAt(1)) = <<64>>
    /\ NoteAt(2)[1] = 0 /\ ValidBytes(NoteAt(2)) = <<64, 64>>
    /\ NoteAt(3)[1] = 0 /\ ValidBytes(NoteAt(3)) = <<144, 64, 64>>
    /\ TrackBytes = <<<<144, 64, 64>>>>
    /\ aggregator = <<>>

\* the times of the input records at positions j .. k-1, in order
RunTimes(j, k) == [i \in 1 .. (k - j) |-> midi_timing[j + i - 1]]

\* C16 (as claimed): the message flushed from the aggregator before the
\* record at position k carries the time round(10 * mean), the mean taken
\* over the times of the aggregated continuation records, one time per
\* record whatever its chunk_len
C16_FlushTimeMeanPerRecord ==
    cpc = "saved" =>
        \A k \in 1 .. Len(midi_notes) :
            (/\ NoteAt(k)[1] = 0
             /\ FromBytesOk(RunBytes(RunStart(k), k))) =>
                track[Len(DueUpTo(k - 1)) + 1].time =
                    RoundHalfEven(10 * Sum(RunTimes(RunStart(k), k)), k - RunStart(k))

\* the position of the last input record that is no continuation record,
\* 0 if there is none
LastOther ==
    LET others == {k \in DOMAIN midi_notes : NoteAt(k)[1] = 0}
    IN  IF others = {} THEN 0
        ELSE CHOOSE k \in others : \A m \in others : m <= k

\* C21: when the input ends with continuation records, no message is made
\* of their bytes: the track is the track of the input up to its last
\* record that is no continuation record (empty if there is none), and
\* the bytes stay in the aggregator
C21_TrailingAggregateDropped ==
    (cpc = "saved" /\ LastOther < Len(midi_notes)) =>
        /\ track = create_midi_track(SubSeq(midi_notes, 1, LastOther),
                                     SubSeq(midi_timing, 1, LastOther)).track
        /\ aggregator = RunBytes(LastOther + 1, Len(midi_notes) + 1)

\* a message of its own, then 144 64 64 in a continuation record at the
\* end of the input: one message is on the track, 144 64 64 is not
C21_Witness ==
    /\ cpc = "saved"
    /\ Len(midi_notes) = 2
    /\ NoteAt(1)[1] = 0
    /\ NoteAt(2)[1] > 0
    /\ aggregator = <<144, 64, 64>>
    /\ Len(track) = 1

C2_RoundTripBytes ==
    (/\ cpc = "saved"
     /\ Len(midi) = 1
     /\ Len(midi[1].bytes) <= 3
     /\ FromBytesOk(midi[1].bytes)) =>
        /\ Len(track) = 1
        /\ track[1].bytes = midi[1].bytes

\* the 2-byte message 192 64 has made the round trip
C2_Witness ==
    /\ cpc = "saved"
    /\ Len(midi) = 1
    /\ midi[1].bytes = <<192, 64>>
    /\ Len(midi_notes) = 1
    /\ Len(track) = 1

\* C22 (as claimed): a valid message of 1 to 3 bytes with time t, loaded and
\* then decoded on its own, comes back with a time within 1 of t
C22_RoundTripTime ==
    (/\ cpc = "saved"
     /\ Len(midi) = 1
     /\ Len(midi[1].bytes) <= 3
     /\ FromBytesOk(midi[1].bytes)) =>
        /\ Len(track) = 1
        /\ track[1].time - midi[1].time \in {0 - 1, 0, 1}

\* the bytes of the messages of the file, in order
FileBytes == [k \in 1 .. Len(midi) |-> midi[k].bytes]

\* C27 (as claimed): a file of valid messages, the last of at most 3 bytes,
\* loaded and then decoded, comes back as the same messages: same number,
\* same bytes, same order, also when two messages of more than 3 bytes
\* follow each other
C27_RoundTripSequence ==
    (/\ cpc = "saved"
     /\ \A k \in DOMAIN midi : FromBytesOk(midi[k].bytes)
     /\ Len(midi[Len(midi)].bytes) <= 3) =>
        TrackBytes = FileBytes

\* C28: generation leaves the stored records and times of the stream it
\* seeds from as they were: no pass changes a stored row or time after the
\* first, and when generation is over the first stored row and time are
\* still the ones the seed was read from (lines 718-719 collect them before
\* the first pass)
C28_PoolUnchanged ==
    /\ [][/\ Len(stored_midi') = Len(stored_midi)
          /\ Len(stored_times') = Len(stored_times)
          /\ \A k \in 2 .. Len(stored_midi) :
                /\ stored_midi'[k] = stored_midi[k]
                /\ stored_times'[k] = stored_times[k]]_vars
    /\ [](gpc = "done" =>
            /\ stored_midi[1] = midi_data_vals[1]
            /\ stored_times[1] = midi_time_vals[1][1])

\* the input is two continuation records followed by one other record
C3_Case ==
    /\ cpc = "saved"
    /\ Len(midi_notes) = 3
    /\ RecordOf(midi_notes[1])[1] > 0
    /\ RecordOf(midi_notes[2])[1] > 0
    /\ RecordOf(midi_notes[3])[1] = 0

C3_Aggregated ==
    ValidBytes(RecordOf(midi_notes[1])) \o ValidBytes(RecordOf(midi_notes[2]))

C3_Own == ValidBytes(RecordOf(midi_notes[3]))

\* C3 (as claimed): two continuation records and one other record always
\* give exactly two messages, the aggregate and then the record's own, and
\* an empty aggregator
C3_AlwaysTwoEvents ==
    C3_Case =>
        /\ TrackBytes = <<C3_Aggregated, C3_Own>>
        /\ aggregator = <<>>
        /\ aggregator_times = <<>>

\* C3 (amended): they give, in this order, the aggregate if its bytes form a
\* valid message and the record's own bytes if they form one, so exactly
\* these two messages when both are valid; the aggregator ends empty
C3_TwoEventsWhenValid ==
    C3_Case =>
        /\ TrackBytes =
              (IF FromBytesOk(C3_Aggregated) THEN <<C3_Aggregated>> ELSE <<>>) \o
              (IF FromBytesOk(C3_Own) THEN <<C3_Own>> ELSE <<>>)
        /\ aggregator = <<>>
        /\ aggregator_times = <<>>

\* 144 and 64 64 arrive in two continuation records, 144 64 64 in a third
C3_Witness ==
    /\ C3_Case
    /\ ValidBytes(RecordOf(midi_notes[1])) = <<144>>
    /\ ValidBytes(RecordOf(midi_notes[2])) = <<64, 64>>
    /\ TrackBytes = <<<<144, 64, 64>>, <<144, 64, 64>>>>
    /\ aggregator = <<>>

=============================================================================
